---- MODULE Spec2Model ----
\* A model of the VRS entity API of libvrsdk (api/Entity.go): the public
\* operations of VRSConnection acting on the Nuage VM table of the local
\* OVSDB server through the wrapped table client.
EXTENDS Integers, Sequences, FiniteSets, TLC

VARIABLES
    vmTable,  \* the rows of the Nuage VM table held by the OVSDB server
    calls,    \* the calls into package ovsdb made by the operation that returned last
    last,     \* the operation that returned last: its name, arguments, return values
    nops,     \* the number of operations invoked so far
    pc,       \* per caller: its position inside Add/RemoveEntityPort
    loc,      \* per caller: its arguments and local variables
    writes,   \* the concurrent callers in the order of their UpdateRow calls
    orig      \* the set of ports of the entity when the concurrent callers started

vars == <<vmTable, calls, last, nops, pc, loc, writes, orig>>

\* ---------------------------------------------------------------- bounds

\* Operations invoked in one behaviour of Spec.
MaxOps == 3
\* Length of the ports column when the concurrent callers of SpecConc start.
MaxPorts == 2

\* ---------------------------------------------------------------- values

UUIDs == {"", "u1", "xxxx"}
\* The UUID the operations on an entity are invoked with.
EntityUUIDs == {"u1"}
Names == {"", "vm1"}
PortNames == {"p1", "p2", "p3"}
Callers == {"c1", "c2"}

\* entity.MetadataKey: the two keys CreateEntity names, and one other key.
MetadataKeyUser == "MetadataKeyUser"
MetadataKeyEnterprise == "MetadataKeyEnterprise"
MetadataKeyOther == "MetadataKeyOther"
MetadataKeys == {MetadataKeyUser, MetadataKeyEnterprise, MetadataKeyOther}

\* A Go map[...]string: nil, or a finite map from keys to strings.
NilMap == [isNil |-> TRUE, kv |-> <<>>]
MakeMap(f) == [isNil |-> FALSE, kv |-> f]
\* The metadata maps given to the operations: nil, and one holding every key.
GoMaps == {NilMap, MakeMap([k \in MetadataKeys |-> "a"])}
\* m[k] of a Go map: the zero value "" for an absent key or a nil map.
MapGet(m, k) == IF k \in DOMAIN m.kv THEN m.kv[k] ELSE ""
\* delete(m, k): removes k; a no-op on a nil map or an absent key.
MapDelete(m, k) ==
    [isNil |-> m.isNil, kv |-> [x \in (DOMAIN m.kv) \ {k} |-> m.kv[x]]]

\* entity.Type, entity.Domain, entity.State, entity.SubState values.
Types == {"VM"}
Domains == {"KVM"}
Running == "Running"
RunningUnknown == "RunningUnknown"
States == {"Shutdown"}
SubStates == {"ShutdownUser"}

\* entity.EventCategory / entity.Event and the static validation table.
EventCategoryDefined == "EventCategoryDefined"
EventDefinedAdded == "EventDefinedAdded"
EventCategories == {"EventCategoryDefined", "EventCategoryStarted"}
Events == {"EventDefinedAdded", "EventStartedBooted"}
ValidEvents == {<<"EventCategoryDefined", "EventDefinedAdded">>,
                <<"EventCategoryStarted", "EventStartedBooted">>}
ValidateEvent(evtCategory, evt) == <<evtCategory, evt>> \in ValidEvents

Range(s) == {s[i] : i \in 1..Len(s)}

\* ---------------------------------------------------------------- table client

\* ovsdb.NuageTable: a condition is <<column, "==" or "!=", value>>.
Matches(row, condition) ==
    IF condition[2] = "==" THEN row[condition[1]] = condition[3]
    ELSE row[condition[1]] # condition[3]

\* libovsdb.NewOvsSet: the value sent for a set column, holding the elements
\* of a slice in the order of the slice. It returns an error as well; whether
\* it fails is an input of the handlers calling it.
NewOvsSet(elems) == [GoSet |-> elems]

\* The ports column is an OVSDB set: the server keeps the elements sent to it
\* as a set, without an order and without duplicates.
StoredSet(value) == Range(value.GoSet)

\* The orders in which the elements of a stored set may be listed in a reply.
RECURSIVE Orderings(_)
Orderings(S) ==
    IF S = {} THEN {<<>>}
    ELSE UNION {{Append(s, x) : s \in Orderings(S \ {x})} : x \in S}

\* InsertRow: the row is added to the table, its ports as an OVSDB set.
InsertRow(table, row) ==
    Append(table, [row EXCEPT !.Ports = StoredSet(NewOvsSet(@))])

\* DeleteRow: the rows matching the condition are removed.
DeleteRow(table, condition) ==
    SelectSeq(table, LAMBDA r : ~Matches(r, condition))

\* UpdateRow: the given columns are overwritten in the rows matching the condition.
UpdateRow(table, row, condition) ==
    [i \in 1..Len(table) |->
        IF Matches(table[i], condition)
        THEN [c \in DOMAIN table[i] |->
                 IF c \notin DOMAIN row THEN table[i][c]
                 ELSE IF c = "Ports" THEN StoredSet(row[c])
                 ELSE row[c]]
        ELSE table[i]]

\* ReadRows: the rows matching the condition, in table order.
ReadRows(table, condition) ==
    SelectSeq(table, LAMBDA r : Matches(r, condition))

\* ReadRow: fails when no row matches, else replies with the first matching
\* row, the elements of its ports listed in the order the server chose.
ReadRowFound(table, condition) == Len(ReadRows(table, condition)) > 0
ReplyOrders(table, condition) ==
    IF ReadRowFound(table, condition)
    THEN Orderings(ReadRows(table, condition)[1].Ports)
    ELSE {<<>>}
ReadRow(table, condition, order) ==
    [ReadRows(table, condition)[1] EXCEPT !.Ports = NewOvsSet(order)]

\* ovsdb.UnMarshallOVSStringSet: the strings of the set value of a reply, in
\* the order of the reply.
UnMarshallOVSStringSet(data) == data.GoSet

\* A call into the OVSDB packages and whether it succeeded. The calls other
\* than the decoding and the building of a set value are calls on the table.
Call(op, ok) == [op |-> op, ok |-> ok]
SetCalls == {"UnMarshallOVSStringSet", "NewOvsSet"}
TableCalls(cs) == SelectSeq(cs, LAMBDA c : c.op \notin SetCalls)

\* The outcome of a handler: the calls it made, whether it returned a non-nil
\* error, the value it returned (for AddEntityPort and RemoveEntityPort the
\* ports they read), the ports it handed to NewOvsSet, and the table it leaves.
Outcome(cs, err, val, table) ==
    [calls |-> cs, err |-> err, val |-> val, put |-> <<>>, table |-> table]

\* ---------------------------------------------------------------- handlers

EntityInfos ==
    [UUID : UUIDs, Name : Names, Type : Types, Domain : Domains,
     Ports : {<<>>, <<"p1", "p2">>}, Metadata : GoMaps]

\* A faulty variant of CreateEntityCheck: the Name is not checked.
CreateEntityCheckNoName(info) ==
    IF info.UUID = "" THEN "Uuid absent" ELSE ""

\* CreateEntity, lines 24-30: the local checks; "" when they pass.
CreateEntityCheck(info) ==
    IF info.UUID = "" THEN "Uuid absent"
    ELSE IF info.Name = "" THEN "Name absent"
    ELSE ""

\* CreateEntity, lines 34-42: the copy of info.Metadata written to the row.
\* The deletion of the enterprise key is commented out in the source.
CreateEntityMetadata(info) ==
    LET copy == IF ~info.Metadata.isNil THEN MakeMap(info.Metadata.kv) ELSE NilMap
    IN  MapDelete(copy, MetadataKeyUser)

\* CreateEntity, lines 44-57: the row handed to InsertRow.
NuageVMTableRow(info) ==
    [Type            |-> info.Type,
     Event           |-> EventCategoryDefined,
     EventType       |-> EventDefinedAdded,
     State           |-> Running,
     Reason          |-> RunningUnknown,
     VMName          |-> info.Name,
     VMUuid          |-> info.UUID,
     Domain          |-> info.Domain,
     NuageUser       |-> MapGet(info.Metadata, MetadataKeyUser),
     NuageEnterprise |-> MapGet(info.Metadata, MetadataKeyEnterprise),
     Metadata        |-> CreateEntityMetadata(info),
     Ports           |-> info.Ports]

\* CreateEntity: the local checks, the row, one InsertRow.
CreateEntityDo(table, info, insertOk) ==
    IF CreateEntityCheck(info) # "" THEN Outcome(<<>>, TRUE, <<>>, table)
    ELSE IF ~insertOk THEN Outcome(<<Call("InsertRow", FALSE)>>, TRUE, <<>>, table)
    ELSE Outcome(<<Call("InsertRow", TRUE)>>, FALSE, <<>>,
                 InsertRow(table, NuageVMTableRow(info)))

\* DestroyEntity: one DeleteRow of the rows with the UUID.
DestroyEntityDo(table, uuid, deleteOk) ==
    LET condition == <<"VMUuid", "==", uuid>>
    IN  IF ~deleteOk THEN Outcome(<<Call("DeleteRow", FALSE)>>, TRUE, <<>>, table)
        ELSE Outcome(<<Call("DeleteRow", TRUE)>>, FALSE, <<>>, DeleteRow(table, condition))

\* A faulty variant of GetEntityPortsDo: a failed ReadRow is issued again.
GetEntityPortsRetry(table, uuid, order, readOk, decodeOk) ==
    LET condition == <<"VMUuid", "==", uuid>>
    IN  IF ~(readOk /\ ReadRowFound(table, condition))
        THEN Outcome(<<Call("ReadRow", FALSE), Call("ReadRow", FALSE)>>, TRUE, <<>>, table)
        ELSE IF ~decodeOk
        THEN Outcome(<<Call("ReadRow", TRUE), Call("UnMarshallOVSStringSet", FALSE)>>,
                     TRUE, <<>>, table)
        ELSE Outcome(<<Call("ReadRow", TRUE), Call("UnMarshallOVSStringSet", TRUE)>>, FALSE,
                     UnMarshallOVSStringSet(ReadRow(table, condition, order).Ports), table)

\* GetEntityPorts: one ReadRow of the ports column, then the decoding of the
\* set, which may fail as well. order is the order of the ports in the reply.
GetEntityPortsDo(table, uuid, order, readOk, decodeOk) ==
    LET condition == <<"VMUuid", "==", uuid>>
    IN  IF ~(readOk /\ ReadRowFound(table, condition))
        THEN Outcome(<<Call("ReadRow", FALSE)>>, TRUE, <<>>, table)
        ELSE IF ~decodeOk
        THEN Outcome(<<Call("ReadRow", TRUE), Call("UnMarshallOVSStringSet", FALSE)>>,
                     TRUE, <<>>, table)
        ELSE Outcome(<<Call("ReadRow", TRUE), Call("UnMarshallOVSStringSet", TRUE)>>, FALSE,
                     UnMarshallOVSStringSet(ReadRow(table, condition, order).Ports), table)

\* A faulty variant of AppendPort: the port is put first.
AppendPortFront(ports, portName) == <<portName>> \o ports

\* AddEntityPort, line 85: append(ports, portName).
AppendPort(ports, portName) == Append(ports, portName)

\* AddEntityPort, lines 85-98: the new ports, NewOvsSet and its error check,
\* then the UpdateRow of the ports column.
AddEntityPortWrite(table, uuid, portName, ports, encodeOk, updateOk) ==
    LET newPorts == AppendPort(ports, portName)
        row == [Ports |-> NewOvsSet(newPorts)]
        condition == <<"VMUuid", "==", uuid>>
    IN  IF ~encodeOk
        THEN [Outcome(<<Call("NewOvsSet", FALSE)>>, TRUE, <<>>, table)
                 EXCEPT !.put = newPorts]
        ELSE IF ~updateOk
        THEN [Outcome(<<Call("NewOvsSet", TRUE), Call("UpdateRow", FALSE)>>,
                      TRUE, <<>>, table)
                 EXCEPT !.put = newPorts]
        ELSE [Outcome(<<Call("NewOvsSet", TRUE), Call("UpdateRow", TRUE)>>,
                      FALSE, <<>>, UpdateRow(table, row, condition))
                 EXCEPT !.put = newPorts]

\* A faulty variant of PortIndex: 0, not -1, when no port equals portName.
PortIndexOrZero(ports, portName) ==
    IF \E i \in 1..Len(ports) : ports[i] = portName
    THEN (CHOOSE i \in 1..Len(ports) :
             /\ ports[i] = portName
             /\ \A j \in 1..(i - 1) : ports[j] # portName) - 1
    ELSE 0

\* RemoveEntityPort, lines 109-115: the index (from 0) of the first port equal
\* to portName, -1 when there is none.
PortIndex(ports, portName) ==
    IF \E i \in 1..Len(ports) : ports[i] = portName
    THEN (CHOOSE i \in 1..Len(ports) :
             /\ ports[i] = portName
             /\ \A j \in 1..(i - 1) : ports[j] # portName) - 1
    ELSE -1

\* A faulty variant of RemoveAt: the port after portIndex is removed.
RemoveAtNext(ports, portIndex) ==
    IF portIndex + 2 <= Len(ports)
    THEN SubSeq(ports, 1, portIndex + 1) \o SubSeq(ports, portIndex + 3, Len(ports))
    ELSE SubSeq(ports, 1, portIndex) \o SubSeq(ports, portIndex + 2, Len(ports))

\* RemoveEntityPort, line 121: append(ports[:portIndex], ports[portIndex+1:]...).
RemoveAt(ports, portIndex) ==
    SubSeq(ports, 1, portIndex) \o SubSeq(ports, portIndex + 2, Len(ports))

\* RemoveEntityPort, lines 109-135: the search of the port, the new ports,
\* NewOvsSet and its error check, then the UpdateRow of the ports column.
RemoveEntityPortWrite(table, uuid, portName, ports, encodeOk, updateOk) ==
    LET portIndex == PortIndex(ports, portName)
        newPorts == RemoveAt(ports, portIndex)
        row == [Ports |-> NewOvsSet(newPorts)]
        condition == <<"VMUuid", "==", uuid>>
    IN  IF portIndex = -1 THEN Outcome(<<>>, TRUE, <<>>, table)
        ELSE IF ~encodeOk
        THEN [Outcome(<<Call("NewOvsSet", FALSE)>>, TRUE, <<>>, table)
                 EXCEPT !.put = newPorts]
        ELSE IF ~updateOk
        THEN [Outcome(<<Call("NewOvsSet", TRUE), Call("UpdateRow", FALSE)>>,
                      TRUE, <<>>, table)
                 EXCEPT !.put = newPorts]
        ELSE [Outcome(<<Call("NewOvsSet", TRUE), Call("UpdateRow", TRUE)>>,
                      FALSE, <<>>, UpdateRow(table, row, condition))
                 EXCEPT !.put = newPorts]

\* A faulty variant of PortsReadErr: the error of GetEntityPorts is ignored.
PortsReadErrIgnored(got) == FALSE

\* AddEntityPort, lines 81-83, and RemoveEntityPort, lines 105-107: the method
\* returns an error when GetEntityPorts returned one.
PortsReadErr(got) == got.err

\* SetEntityState: one UpdateRow of the state and reason columns.
SetEntityStateDo(table, uuid, state, subState, updateOk) ==
    LET row == [State |-> state, Reason |-> subState]
        condition == <<"VMUuid", "==", uuid>>
    IN  IF ~updateOk THEN Outcome(<<Call("UpdateRow", FALSE)>>, TRUE, <<>>, table)
        ELSE Outcome(<<Call("UpdateRow", TRUE)>>, FALSE, <<>>,
                     UpdateRow(table, row, condition))

\* A faulty variant of PostEntityEventDo: the event is not validated.
PostEntityEventNoValidate(table, uuid, evtCategory, evt, updateOk) ==
    LET row == [Event |-> evtCategory, EventType |-> evt]
        condition == <<"VMUuid", "==", uuid>>
    IN  IF ~updateOk THEN Outcome(<<Call("UpdateRow", FALSE)>>, TRUE, <<>>, table)
        ELSE Outcome(<<Call("UpdateRow", TRUE)>>, FALSE, <<>>,
                     UpdateRow(table, row, condition))

\* PostEntityEvent: the validation of the event, then one UpdateRow.
PostEntityEventDo(table, uuid, evtCategory, evt, updateOk) ==
    LET row == [Event |-> evtCategory, EventType |-> evt]
        condition == <<"VMUuid", "==", uuid>>
    IN  IF ~ValidateEvent(evtCategory, evt) THEN Outcome(<<>>, TRUE, <<>>, table)
        ELSE IF ~updateOk THEN Outcome(<<Call("UpdateRow", FALSE)>>, TRUE, <<>>, table)
        ELSE Outcome(<<Call("UpdateRow", TRUE)>>, FALSE, <<>>,
                     UpdateRow(table, row, condition))

\* SetEntityMetadata: one UpdateRow of the metadata column.
SetEntityMetadataDo(table, uuid, metadata, updateOk) ==
    LET row == [Metadata |-> metadata]
        condition == <<"VMUuid", "==", uuid>>
    IN  IF ~updateOk THEN Outcome(<<Call("UpdateRow", FALSE)>>, TRUE, <<>>, table)
        ELSE Outcome(<<Call("UpdateRow", TRUE)>>, FALSE, <<>>,
                     UpdateRow(table, row, condition))

\* GetAllEntities: the VMUuid column of the rows whose VMUuid differs from "xxxx".
GetAllEntitiesDo(table, readOk) ==
    LET condition == <<"VMUuid", "!=", "xxxx">>
        uuidRows == ReadRows(table, condition)
    IN  IF ~readOk THEN Outcome(<<Call("ReadRows", FALSE)>>, TRUE, <<>>, table)
        ELSE Outcome(<<Call("ReadRows", TRUE)>>, FALSE,
                     [i \in 1..Len(uuidRows) |-> uuidRows[i].VMUuid], table)

\* ---------------------------------------------------------------- operations

\* The methods are called from any goroutine, with no lock in VRSConnection.
\* An operation issuing one table call is one step. AddEntityPort and
\* RemoveEntityPort issue two, the ReadRow of GetEntityPorts and later the
\* UpdateRow, with no transaction around them: each is two steps, and the
\* steps of other invocations may come in between.

NoCaller == [c \in Callers |-> "idle"]
NoLocals == [c \in Callers |->
    [op |-> "", uuid |-> "", portName |-> "", ports |-> <<>>, calls |-> <<>>,
     err |-> FALSE, readAt |-> 0, alone |-> FALSE]]

\* The caller running a new invocation of AddEntityPort or RemoveEntityPort.
IdleCallers == {c \in Callers : pc[c] = "idle"}
NextCaller == IF "c1" \in IdleCallers THEN "c1" ELSE "c2"

\* A step was taken: no invocation in progress ran alone since it read.
Interleaved(l) == [c \in Callers |-> [l[c] EXCEPT !.alone = FALSE]]

\* The state after NewConnection: an empty VM table and no operation invoked.
Init ==
    /\ vmTable = <<>>
    /\ calls = <<>>
    /\ last = [name |-> "", args |-> <<>>, err |-> FALSE, val |-> <<>>, put |-> <<>>,
               alone |-> TRUE, seq |-> 0]
    /\ nops = 0
    /\ pc = NoCaller
    /\ loc = NoLocals
    /\ writes = <<>>
    /\ orig = {}

\* The record of an invocation that returns: the operation, its arguments, what
\* it returned, whether no step of another invocation came between its first
\* and its last table call, and how many invocations returned before it.
Returned(name, args, out, alone) ==
    [name |-> name, args |-> args, err |-> out.err, val |-> out.val, put |-> out.put,
     alone |-> alone, seq |-> last.seq + 1]

\* Which call of GetEntityPorts fails, if any, and which call after it.
ReadFailures == {"none", "read", "decode"}
WriteFailures == {"none", "encode", "update"}

CreateEntity ==
    \E info \in EntityInfos :
      \E insertOk \in IF CreateEntityCheck(info) = "" THEN BOOLEAN ELSE {TRUE} :
        LET out == CreateEntityDo(vmTable, info, insertOk)
        IN  /\ nops < MaxOps
            /\ nops' = nops + 1
            /\ vmTable' = out.table
            /\ calls' = out.calls
            /\ last' = Returned("CreateEntity", info, out, TRUE)
            /\ loc' = Interleaved(loc)
            /\ UNCHANGED <<pc, writes, orig>>

DestroyEntity ==
    \E uuid \in EntityUUIDs, deleteOk \in BOOLEAN :
        LET out == DestroyEntityDo(vmTable, uuid, deleteOk)
        IN  /\ nops < MaxOps
            /\ nops' = nops + 1
            /\ vmTable' = out.table
            /\ calls' = out.calls
            /\ last' = Returned("DestroyEntity", [uuid |-> uuid], out, TRUE)
            /\ loc' = Interleaved(loc)
            /\ UNCHANGED <<pc, writes, orig>>

\* AddEntityPort, lines 78-83: the invocation up to the return of
\* GetEntityPorts; the method returns here when the ports could not be read.
AddEntityPort ==
    \E uuid \in EntityUUIDs, portName \in PortNames, fail \in ReadFailures :
      \E order \in IF fail = "none" THEN ReplyOrders(vmTable, <<"VMUuid", "==", uuid>>)
                    ELSE {<<>>} :
        LET got == GetEntityPortsDo(vmTable, uuid, order, fail # "read", fail # "decode")
            c == NextCaller
        IN  /\ nops < MaxOps
            /\ IdleCallers # {}
            /\ nops' = nops + 1
            /\ vmTable' = got.table
            /\ IF PortsReadErr(got)
               THEN /\ calls' = got.calls
                    /\ last' = Returned("AddEntityPort",
                                        [uuid |-> uuid, portName |-> portName], got, TRUE)
                    /\ loc' = Interleaved(loc)
                    /\ pc' = pc
               ELSE /\ UNCHANGED <<calls, last>>
                    /\ loc' = [Interleaved(loc) EXCEPT ![c] =
                                  [op |-> "AddEntityPort", uuid |-> uuid,
                                   portName |-> portName, ports |-> got.val,
                                   calls |-> got.calls, err |-> FALSE, readAt |-> 0,
                                   alone |-> TRUE]]
                    /\ pc' = [pc EXCEPT ![c] = "write"]
            /\ UNCHANGED <<writes, orig>>

\* AddEntityPort, lines 85-98: from the ports read to the return.
AddEntityPortUpdate ==
    \E c \in Callers, fail \in WriteFailures :
        LET put == AddEntityPortWrite(vmTable, loc[c].uuid, loc[c].portName,
                                      loc[c].ports, fail # "encode", fail # "update")
        IN  /\ pc[c] = "write"
            /\ loc[c].op = "AddEntityPort"
            /\ vmTable' = put.table
            /\ calls' = loc[c].calls \o put.calls
            /\ last' = Returned("AddEntityPort",
                                [uuid |-> loc[c].uuid, portName |-> loc[c].portName],
                                [put EXCEPT !.val = loc[c].ports], loc[c].alone)
            /\ loc' = [Interleaved(loc) EXCEPT ![c] = NoLocals[c]]
            /\ pc' = [pc EXCEPT ![c] = "idle"]
            /\ UNCHANGED <<nops, writes, orig>>

\* RemoveEntityPort, lines 102-107: the invocation up to the return of
\* GetEntityPorts; the method returns here when the ports could not be read.
RemoveEntityPort ==
    \E uuid \in EntityUUIDs, portName \in PortNames, fail \in ReadFailures :
      \E order \in IF fail = "none" THEN ReplyOrders(vmTable, <<"VMUuid", "==", uuid>>)
                    ELSE {<<>>} :
        LET got == GetEntityPortsDo(vmTable, uuid, order, fail # "read", fail # "decode")
            c == NextCaller
        IN  /\ nops < MaxOps
            /\ IdleCallers # {}
            /\ nops' = nops + 1
            /\ vmTable' = got.table
            /\ IF PortsReadErr(got)
               THEN /\ calls' = got.calls
                    /\ last' = Returned("RemoveEntityPort",
                                        [uuid |-> uuid, portName |-> portName], got, TRUE)
                    /\ loc' = Interleaved(loc)
                    /\ pc' = pc
               ELSE /\ UNCHANGED <<calls, last>>
                    /\ loc' = [Interleaved(loc) EXCEPT ![c] =
                                  [op |-> "RemoveEntityPort", uuid |-> uuid,
                                   portName |-> portName, ports |-> got.val,
                                   calls |-> got.calls, err |-> FALSE, readAt |-> 0,
                                   alone |-> TRUE]]
                    /\ pc' = [pc EXCEPT ![c] = "write"]
            /\ UNCHANGED <<writes, orig>>

\* RemoveEntityPort, lines 109-135: from the ports read to the return.
RemoveEntityPortUpdate ==
    \E c \in Callers, fail \in WriteFailures :
        LET put == RemoveEntityPortWrite(vmTable, loc[c].uuid, loc[c].portName,
                                         loc[c].ports, fail # "encode", fail # "update")
        IN  /\ pc[c] = "write"
            /\ loc[c].op = "RemoveEntityPort"
            /\ vmTable' = put.table
            /\ calls' = loc[c].calls \o put.calls
            /\ last' = Returned("RemoveEntityPort",
                                [uuid |-> loc[c].uuid, portName |-> loc[c].portName],
                                [put EXCEPT !.val = loc[c].ports], loc[c].alone)
            /\ loc' = [Interleaved(loc) EXCEPT ![c] = NoLocals[c]]
            /\ pc' = [pc EXCEPT ![c] = "idle"]
            /\ UNCHANGED <<nops, writes, orig>>

GetEntityPorts ==
    \E uuid \in EntityUUIDs, fail \in ReadFailures :
      \E order \in IF fail = "none" THEN ReplyOrders(vmTable, <<"VMUuid", "==", uuid>>)
                    ELSE {<<>>} :
        LET out == GetEntityPortsDo(vmTable, uuid, order, fail # "read", fail # "decode")
        IN  /\ nops < MaxOps
            /\ nops' = nops + 1
            /\ vmTable' = out.table
            /\ calls' = out.calls
            /\ last' = Returned("GetEntityPorts", [uuid |-> uuid], out, TRUE)
            /\ loc' = Interleaved(loc)
            /\ UNCHANGED <<pc, writes, orig>>

SetEntityState ==
    \E uuid \in EntityUUIDs, state \in States, subState \in SubStates, updateOk \in BOOLEAN :
        LET out == SetEntityStateDo(vmTable, uuid, state, subState, updateOk)
        IN  /\ nops < MaxOps
            /\ nops' = nops + 1
            /\ vmTable' = out.table
            /\ calls' = out.calls
            /\ last' = Returned("SetEntityState",
                                [uuid |-> uuid, state |-> state, subState |-> subState],
                                out, TRUE)
            /\ loc' = Interleaved(loc)
            /\ UNCHANGED <<pc, writes, orig>>

PostEntityEvent ==
    \E uuid \in EntityUUIDs, evtCategory \in EventCategories, evt \in Events :
      \E updateOk \in IF ValidateEvent(evtCategory, evt) THEN BOOLEAN ELSE {TRUE} :
        LET out == PostEntityEventDo(vmTable, uuid, evtCategory, evt, updateOk)
        IN  /\ nops < MaxOps
            /\ nops' = nops + 1
            /\ vmTable' = out.table
            /\ calls' = out.calls
            /\ last' = Returned("PostEntityEvent",
                                [uuid |-> uuid, evtCategory |-> evtCategory, evt |-> evt],
                                out, TRUE)
            /\ loc' = Interleaved(loc)
            /\ UNCHANGED <<pc, writes, orig>>

SetEntityMetadata ==
    \E uuid \in EntityUUIDs, metadata \in GoMaps, updateOk \in BOOLEAN :
        LET out == SetEntityMetadataDo(vmTable, uuid, metadata, updateOk)
        IN  /\ nops < MaxOps
            /\ nops' = nops + 1
            /\ vmTable' = out.table
            /\ calls' = out.calls
            /\ last' = Returned("SetEntityMetadata", [uuid |-> uuid, metadata |-> metadata],
                                out, TRUE)
            /\ loc' = Interleaved(loc)
            /\ UNCHANGED <<pc, writes, orig>>

GetAllEntities ==
    \E readOk \in BOOLEAN :
        LET out == GetAllEntitiesDo(vmTable, readOk)
        IN  /\ nops < MaxOps
            /\ nops' = nops + 1
            /\ vmTable' = out.table
            /\ calls' = out.calls
            /\ last' = Returned("GetAllEntities", <<>>, out, TRUE)
            /\ loc' = Interleaved(loc)
            /\ UNCHANGED <<pc, writes, orig>>

Next ==
    \/ CreateEntity
    \/ DestroyEntity
    \/ AddEntityPort
    \/ AddEntityPortUpdate
    \/ RemoveEntityPort
    \/ RemoveEntityPortUpdate
    \/ GetEntityPorts
    \/ SetEntityState
    \/ PostEntityEvent
    \/ SetEntityMetadata
    \/ GetAllEntities

Spec == Init /\ [][Next]_vars

\* ---------------------------------------------------------------- two callers

\* SpecConc follows two callers of AddEntityPort and RemoveEntityPort working
\* on the entity "u1", from their reads of the ports to their returns.

RECURSIVE SeqsUpTo(_, _)
SeqsUpTo(S, n) ==
    IF n = 0 THEN {<<>>}
    ELSE SeqsUpTo(S, n - 1) \cup
         {Append(s, x) : s \in {t \in SeqsUpTo(S, n - 1) : Len(t) = n - 1}, x \in S}

PortOps == {"AddEntityPort", "RemoveEntityPort"}

\* An entity "u1" exists, created with some ports; each caller is about to
\* invoke AddEntityPort or RemoveEntityPort on it, with different port names.
InitConc ==
    /\ \E ports \in SeqsUpTo(PortNames, MaxPorts) :
          /\ orig = Range(ports)
          /\ vmTable = InsertRow(<<>>, NuageVMTableRow(
                 [UUID |-> "u1", Name |-> "vm1", Type |-> "VM", Domain |-> "KVM",
                  Ports |-> ports, Metadata |-> NilMap]))
    /\ \E op1, op2 \in PortOps, p1, p2 \in PortNames :
          /\ p1 # p2
          /\ loc = [c \in Callers |->
                [op |-> IF c = "c1" THEN op1 ELSE op2, uuid |-> "u1",
                 portName |-> IF c = "c1" THEN p1 ELSE p2,
                 ports |-> <<>>, calls |-> <<>>, err |-> FALSE, readAt |-> 0,
                 alone |-> FALSE]]
    /\ pc = [c \in Callers |-> "read"]
    /\ writes = <<>>
    /\ calls = <<>>
    /\ last = [name |-> "", args |-> <<>>, err |-> FALSE, val |-> <<>>, put |-> <<>>,
               alone |-> TRUE, seq |-> 0]
    /\ nops = 0

\* The first half of Add/RemoveEntityPort: GetEntityPorts and its error check.
CallerRead(c) ==
    /\ pc[c] = "read"
    /\ \E fail \in ReadFailures,
          order \in ReplyOrders(vmTable, <<"VMUuid", "==", loc[c].uuid>>) :
          LET got == GetEntityPortsDo(vmTable, loc[c].uuid, order,
                                      fail # "read", fail # "decode")
          IN  /\ loc' = [loc EXCEPT ![c].ports = got.val, ![c].err = PortsReadErr(got),
                                    ![c].readAt = Len(writes)]
              /\ pc' = [pc EXCEPT ![c] = IF PortsReadErr(got) THEN "done" ELSE "write"]
    /\ UNCHANGED <<vmTable, calls, last, nops, writes, orig>>

\* The second half: the new ports are computed from the ports read and written.
CallerWrite(c) ==
    /\ pc[c] = "write"
    /\ \E fail \in WriteFailures :
          LET put == IF loc[c].op = "AddEntityPort"
                     THEN AddEntityPortWrite(vmTable, loc[c].uuid, loc[c].portName,
                                             loc[c].ports, fail # "encode", fail # "update")
                     ELSE RemoveEntityPortWrite(vmTable, loc[c].uuid, loc[c].portName,
                                                loc[c].ports, fail # "encode", fail # "update")
          IN  /\ vmTable' = put.table
              /\ loc' = [loc EXCEPT ![c].err = put.err]
              /\ writes' = IF put.err THEN writes ELSE Append(writes, c)
              /\ pc' = [pc EXCEPT ![c] = "done"]
    /\ UNCHANGED <<calls, last, nops, orig>>

NextConc == \E c \in Callers : CallerRead(c) \/ CallerWrite(c)

SpecConc == InitConc /\ [][NextConc]_vars

\* ---------------------------------------------------------------- properties

\* A step of Spec in which an invocation returns.
Returns == last'.seq = last.seq + 1

\* The ports column of every row of the table whose UUID is uuid holds the
\* set ports.
PortsAre(table, uuid, ports) ==
    \A i \in 1..Len(table) :
        table[i].VMUuid = uuid => table[i].Ports = ports

HasEntity(table, uuid) == \E i \in 1..Len(table) : table[i].VMUuid = uuid

\* C1: CreateEntity called with an empty UUID or an empty Name returns an
\* error and issues no table call, so the VM table is unchanged, whatever the
\* other fields of the EntityInfo are.
C1_CreateRejectsEmpty ==
    [][(/\ Returns
        /\ last'.name = "CreateEntity"
        /\ (last'.args.UUID = "" \/ last'.args.Name = ""))
       => (last'.err /\ calls' = <<>> /\ vmTable' = vmTable)]_vars

\* C1 happens: a CreateEntity with a UUID, an empty Name and metadata was
\* rejected without a table call while the table held an entity.
C1_Witness ==
    /\ last.name = "CreateEntity"
    /\ last.args.UUID = "u1"
    /\ last.args.Name = ""
    /\ ~last.args.Metadata.isNil
    /\ last.err
    /\ calls = <<>>
    /\ Len(vmTable) > 0

\* C2: RemoveEntityPort returns an error whenever portName is not in the port
\* list it has just read, and then issues no UpdateRow: no row changes.
C2_RemoveMissingPort ==
    [][(/\ Returns
        /\ last'.name = "RemoveEntityPort"
        /\ last'.args.portName \notin Range(last'.val))
       => (/\ last'.err
           /\ \A i \in 1..Len(calls') : calls'[i].op # "UpdateRow"
           /\ vmTable' = vmTable)]_vars

\* C2 happens: the ports of an entity were read, they are not empty, the port
\* to remove is not among them, and the operation returned an error.
C2_Witness ==
    /\ last.name = "RemoveEntityPort"
    /\ calls = <<Call("ReadRow", TRUE), Call("UnMarshallOVSStringSet", TRUE)>>
    /\ last.val # <<>>
    /\ last.args.portName \notin Range(last.val)
    /\ last.err
    /\ PortsAre(vmTable, last.args.uuid, Range(last.val))

\* C3: PostEntityEvent returns an error and issues no UpdateRow when the static
\* table rejects the (category, event) pair; when the pair is valid it issues
\* one UpdateRow which, if it succeeds, writes the event category and the event
\* type of the rows whose UUID is uuid and nothing else.
C3_PostEntityEvent ==
    [][(Returns /\ last'.name = "PostEntityEvent")
       => LET a == last'.args
          IN  IF ~ValidateEvent(a.evtCategory, a.evt)
              THEN last'.err /\ calls' = <<>> /\ vmTable' = vmTable
              ELSE /\ Len(calls') = 1
                   /\ calls'[1].op = "UpdateRow"
                   /\ last'.err = ~calls'[1].ok
                   /\ last'.err => vmTable' = vmTable
                   /\ ~last'.err =>
                        /\ Len(vmTable') = Len(vmTable)
                        /\ \A i \in 1..Len(vmTable) :
                              vmTable'[i] =
                                 IF vmTable[i].VMUuid = a.uuid
                                 THEN [vmTable[i] EXCEPT !.Event = a.evtCategory,
                                                         !.EventType = a.evt]
                                 ELSE vmTable[i]]_vars

\* C3 happens: an invalid pair was rejected, without a table call, for an
\* entity that exists.
C3_Witness ==
    /\ last.name = "PostEntityEvent"
    /\ ~ValidateEvent(last.args.evtCategory, last.args.evt)
    /\ HasEntity(vmTable, last.args.uuid)
    /\ last.err
    /\ calls = <<>>

\* Whether the invocation recorded in last passed its local checks.
PassedLocalChecks ==
    CASE last.name = "CreateEntity" -> last.args.UUID # "" /\ last.args.Name # ""
      [] last.name = "PostEntityEvent" -> ValidateEvent(last.args.evtCategory, last.args.evt)
      [] last.name = "RemoveEntityPort" ->
            ~(/\ calls = <<Call("ReadRow", TRUE), Call("UnMarshallOVSStringSet", TRUE)>>
              /\ last.args.portName \notin Range(last.val))
      [] OTHER -> last.name # ""

\* The table call each single-call operation issues.
TableCallOf(name) ==
    CASE name = "CreateEntity" -> "InsertRow"
      [] name = "DestroyEntity" -> "DeleteRow"
      [] name = "GetEntityPorts" -> "ReadRow"
      [] name = "GetAllEntities" -> "ReadRows"
      [] OTHER -> "UpdateRow"

\* C4 as claimed: every public operation issues exactly one table call per
\* invocation that passes its local checks.
C4_OneCallPerOperation ==
    PassedLocalChecks => Len(TableCalls(calls)) = 1

\* C4, amended: every public operation issues exactly one table call per
\* invocation that passes its local checks, except AddEntityPort and
\* RemoveEntityPort, which issue one ReadRow and then, exactly when the ports
\* were read and decoded (and, for RemoveEntityPort, hold the port) and
\* NewOvsSet built the set value of the new ports, one UpdateRow.
C4_CallsPerOperation ==
    LET tc == TableCalls(calls)
    IN  IF last.name \in {"AddEntityPort", "RemoveEntityPort"}
        THEN /\ Len(tc) \in {1, 2}
             /\ tc[1].op = "ReadRow"
             /\ Len(tc) = 2 => tc[2].op = "UpdateRow"
             /\ Len(tc) = 2 <=>
                   /\ Len(calls) >= 3
                   /\ \A i \in 1..3 : calls[i].ok
             /\ Len(calls) >= 3 <=>
                   /\ Len(calls) >= 2
                   /\ calls[1].ok /\ calls[2].ok
                   /\ last.name = "RemoveEntityPort"
                         => last.args.portName \in Range(last.val)
             /\ Len(calls) >= 3 => calls[3].op = "NewOvsSet"
             /\ ~last.err => Len(tc) = 2
        ELSE PassedLocalChecks =>
                Len(tc) = 1 /\ tc[1].op = TableCallOf(last.name)

\* C4 happens: an AddEntityPort returned nil after a ReadRow and an UpdateRow.
C4_Witness ==
    /\ last.name = "AddEntityPort"
    /\ ~last.err
    /\ TableCalls(calls) = <<Call("ReadRow", TRUE), Call("UpdateRow", TRUE)>>

\* C5: when its read succeeds, GetAllEntities returns the UUIDs of all the
\* entities of the VM table (those created and not destroyed since).
C5_GetAllEntitiesComplete ==
    (last.name = "GetAllEntities" /\ ~last.err)
        => Range(last.val) = {vmTable[i].VMUuid : i \in 1..Len(vmTable)}

\* C6: the Metadata column of the row CreateEntity inserts is a copy of
\* info.Metadata without the enterprise key and without the user key, every
\* other key keeping its value; the two values go to their own columns.
C6_MetadataColumn ==
    (last.name = "CreateEntity" /\ ~last.err)
        => LET row == vmTable[Len(vmTable)]
               given == last.args.Metadata
               kept == (DOMAIN given.kv) \ {MetadataKeyEnterprise, MetadataKeyUser}
           IN  /\ row.Metadata.isNil = given.isNil
               /\ DOMAIN row.Metadata.kv = kept
               /\ \A k \in kept : row.Metadata.kv[k] = given.kv[k]
               /\ row.NuageUser = MapGet(given, MetadataKeyUser)
               /\ row.NuageEnterprise = MapGet(given, MetadataKeyEnterprise)

\* C7: when a call of an operation to the wrapped table client fails, the
\* operation returns a non-nil error and issues no call after it (no retry,
\* no UpdateRow after a failed read of the ports).
C7_FailureEndsOperation ==
    \A i \in 1..Len(calls) :
        ~calls[i].ok => (i = Len(calls) /\ last.err)

\* C7 happens: the read of the ports of an existing entity failed inside
\* AddEntityPort, which returned an error after that one call.
C7_Witness ==
    /\ last.name = "AddEntityPort"
    /\ HasEntity(vmTable, last.args.uuid)
    /\ calls = <<Call("ReadRow", FALSE)>>
    /\ last.err

\* ---------------------------------------------------------------- C8

\* The ports column of the entity of the two callers.
PortsNow == ReadRows(vmTable, <<"VMUuid", "==", "u1">>)[1].Ports

\* The ports column reflects the mutation of caller c: the port it added is
\* present, the port it removed is absent.
Reflects(c) ==
    IF loc[c].op = "AddEntityPort"
    THEN loc[c].portName \in PortsNow
    ELSE loc[c].portName \notin PortsNow

\* The ports column after the mutation of caller c alone.
AloneResult(c) ==
    IF loc[c].op = "AddEntityPort"
    THEN orig \cup {loc[c].portName}
    ELSE orig \ {loc[c].portName}

BothReturnedNil == \A c \in Callers : pc[c] = "done" /\ ~loc[c].err

\* C8 as claimed: under any interleaving of two callers mutating the ports of
\* one entity with different port names, if both return nil the final ports
\* column reflects both mutations (added ports present, removed ports absent).
C8_NoLostMutation ==
    BothReturnedNil => \A c \in Callers : Reflects(c)

\* C8, amended: if both return nil, the final ports column reflects the
\* mutation of the caller whose UpdateRow came last; it reflects both
\* mutations when the calls did not overlap, that is when that caller read the
\* ports after the UpdateRow of the other; when both read before either wrote,
\* the column is what the later writer alone would have left, and the mutation
\* of the earlier writer is lost.
C8_LastWriterWins ==
    BothReturnedNil =>
        /\ Len(writes) = 2
        /\ Reflects(writes[2])
        /\ loc[writes[2]].readAt = 1 => Reflects(writes[1])
        /\ loc[writes[2]].readAt = 0 => PortsNow = AloneResult(writes[2])

\* C8 happens: both callers returned nil, one after the other, one adding and
\* one removing a port, and the column reflects both mutations.
C8_Witness ==
    /\ BothReturnedNil
    /\ loc[writes[2]].readAt = 1
    /\ loc["c1"].op # loc["c2"].op
    /\ \A c \in Callers : Reflects(c)
    /\ PortsNow # orig

\* ---------------------------------------------------------------- C9

\* The ports read by an operation, without the first occurrence of portName.
WithoutFirst(ports, portName) ==
    LET i == CHOOSE k \in 1..Len(ports) :
                /\ ports[k] = portName
                /\ \A j \in 1..(k - 1) : ports[j] # portName
    IN  [k \in 1..(Len(ports) - 1) |-> IF k < i THEN ports[k] ELSE ports[k + 1]]

\* A step in which every table call succeeded.
TableCallsOk == \A i \in 1..Len(calls') : calls'[i].op \notin SetCalls => calls'[i].ok
\* A step in which the decoding of the ports read and the building of the set
\* value of the new ports succeeded as well.
AllCallsOk == \A i \in 1..Len(calls') : calls'[i].ok

\* A RemoveEntityPort(uuid, p) returns; the invocation that returned before
\* it is an AddEntityPort(uuid, p) that returned nil and had read ports
\* without p; no step of another invocation came between the read and the
\* write of either, nor between the two.
RemoveAfterAdd ==
    /\ Returns
    /\ last.name = "AddEntityPort"
    /\ ~last.err
    /\ last.alone
    /\ last.args.portName \notin Range(last.val)
    /\ last'.name = "RemoveEntityPort"
    /\ last'.args = last.args
    /\ last'.alone

====
